---- MODULE Spec2Model ----
(***************************************************************************)
(* Model of openraft/src/node.rs and openraft/src/engine/testing.rs.       *)
(*                                                                         *)
(*  - Node: the metadata record (addr + BTreeMap data), Node::new and its  *)
(*    Display implementation.  Text is a sequence of byte codes, so that   *)
(*    formatting and key ordering are computed, not assumed.               *)
(*  - NodeIdEssential / NodeId: the cfg-gated trait declarations, as a     *)
(*    table of (cfg predicate, bounds) evaluated for a feature set and a   *)
(*    candidate type (the set of traits the type implements).              *)
(*  - Req, Resp, Config of engine/testing.rs.                              *)
(*                                                                         *)
(* Spec    : the life of one Node record (new, insert, remove, fmt).       *)
(* SpecCap : builds of the crate under a feature set with a candidate      *)
(*           node-id type.                                                 *)
(***************************************************************************)
EXTENDS Integers, Sequences, FiniteSets

VARIABLES node, out, last, addrArg, hist, fresh,
          features, ty, phase, selected, essential, verdict, testCfg

nodeVars == <<node, out, last, addrArg, hist, fresh>>
capVars == <<features, ty, phase, selected, essential, verdict, testCfg>>
vars == <<node, out, last, addrArg, hist, fresh, features, ty, phase, selected, essential, verdict, testCfg>>

(***************************************************************************)
(* Bounds of the model.                                                    *)
(***************************************************************************)
\* longest address or key text fed to the record
MaxLen == 1
\* most entries the attribute map is grown to
MaxPairs == 2
\* most traits a candidate node-id type is missing
MaxMissing == 4

(***************************************************************************)
(* Text: byte codes of the literals the formatter writes.                  *)
(***************************************************************************)
SEMI == 59
SPACE == 32
COMMA == 44
COLON == 58

\* bytes the inputs are made of: ':' and 'a'
Alphabet == {58, 97}

Strs == UNION {[1..n -> Alphabet] : n \in 0..MaxLen}

\* attribute values fed to the record: "", ":" and "a"
Vals == {<<>>} \cup {<<c>> : c \in Alphabet}

\* String's Ord: lexicographic by byte, a proper prefix is smaller
RECURSIVE StrLess(_, _)
StrLess(s, t) ==
    IF s = <<>> THEN t # <<>>
    ELSE IF t = <<>> THEN FALSE
    ELSE IF Head(s) # Head(t) THEN Head(s) < Head(t)
    ELSE StrLess(Tail(s), Tail(t))

(***************************************************************************)
(* data: BTreeMap<String, String>, held as its entries in iteration order. *)
(***************************************************************************)
BTreeNew == <<>>

RECURSIVE BTreeInsertAppend(_, _, _)
BTreeInsertAppend(m, k, v) ==
    IF m = <<>> THEN << <<k, v>> >>
    ELSE IF Head(m)[1] = k THEN << <<k, v>> >> \o Tail(m)
    ELSE <<Head(m)>> \o BTreeInsertAppend(Tail(m), k, v)

RECURSIVE BTreeInsertDesc(_, _, _)
BTreeInsertDesc(m, k, v) ==
    IF m = <<>> THEN << <<k, v>> >>
    ELSE IF Head(m)[1] = k THEN << <<k, v>> >> \o Tail(m)
    ELSE IF StrLess(Head(m)[1], k) THEN << <<k, v>> >> \o m
    ELSE <<Head(m)>> \o BTreeInsertDesc(Tail(m), k, v)

\* insert: replaces the value of a present key, else places the entry at
\* its position in ascending key order
RECURSIVE BTreeInsert(_, _, _)
BTreeInsert(m, k, v) ==
    IF m = <<>> THEN << <<k, v>> >>
    ELSE IF Head(m)[1] = k THEN << <<k, v>> >> \o Tail(m)
    ELSE IF StrLess(k, Head(m)[1]) THEN << <<k, v>> >> \o m
    ELSE <<Head(m)>> \o BTreeInsert(Tail(m), k, v)

BTreeRemove(m, k) == SelectSeq(m, LAMBDA e : e[1] # k)

BTreeContainsKey(m, k) == \E i \in 1..Len(m) : m[i][1] = k

(***************************************************************************)
(* Node                                                                    *)
(***************************************************************************)
\* #[derive(Default)]: empty addr, empty map
NodeDefault == [addr |-> <<>>, data |-> BTreeNew]

\* ToString for text: the bytes, copied one by one
ToString(s) == [i \in 1..Len(s) |-> s[i]]

NodeNewNoAddr(addr) == NodeDefault

\* Node::new: addr set from the argument, the rest from Default
NodeNew(addr) == [NodeDefault EXCEPT !.addr = ToString(addr)]

RECURSIVE FmtLoopLeadingSep(_, _, _)
FmtLoopLeadingSep(f, entries, i) ==
    IF i >= Len(entries) THEN f
    ELSE LET k == entries[i + 1][1]
             v == entries[i + 1][2]
             f1 == IF i >= 0 THEN f \o <<COMMA>> ELSE f
         IN FmtLoopLeadingSep(f1 \o k \o <<COLON>> \o v, entries, i + 1)

RECURSIVE FmtLoopEq(_, _, _)
FmtLoopEq(f, entries, i) ==
    IF i >= Len(entries) THEN f
    ELSE LET k == entries[i + 1][1]
             v == entries[i + 1][2]
             f1 == IF i > 0 THEN f \o <<COMMA>> ELSE f
         IN FmtLoopEq(f1 \o k \o <<61>> \o v, entries, i + 1)

\* for (i, (k, v)) in self.data.iter().enumerate()
RECURSIVE FmtLoop(_, _, _)
FmtLoop(f, entries, i) ==
    IF i >= Len(entries) THEN f
    ELSE LET k == entries[i + 1][1]
             v == entries[i + 1][2]
             f1 == IF i > 0 THEN f \o <<COMMA>> ELSE f
         IN FmtLoop(f1 \o k \o <<COLON>> \o v, entries, i + 1)

\* Display::fmt for Node, into an empty formatter
Fmt(self) == FmtLoop(self.addr \o <<SEMI, SPACE>>, self.data, 0)

(***************************************************************************)
(* Traits and cargo features.  A type is the set of traits it implements   *)
(* in the build at hand.                                                   *)
(***************************************************************************)
Features == {"serde", "rkyv"}

StdTraits == {"Sized", "Send", "Sync", "Eq", "PartialEq", "Ord", "PartialOrd",
              "Debug", "Display", "Hash", "Copy", "Clone", "Default", "'static"}

SerdeTraits == {"serde::Serialize", "serde::Deserialize"}

RkyvTraits == {"rkyv::Archive", "rkyv::Serialize", "rkyv::Deserialize"}

AllTraits == StdTraits \cup SerdeTraits \cup RkyvTraits

\* what a trait's own declaration demands of its implementors
Supertraits(t) ==
    CASE t = "Eq" -> {"PartialEq"}
      [] t = "PartialOrd" -> {"PartialEq"}
      [] t = "Ord" -> {"Eq", "PartialOrd", "PartialEq"}
      [] t = "Copy" -> {"Clone", "Sized"}
      [] t = "Clone" -> {"Sized"}
      [] t = "Default" -> {"Sized"}
      [] t = "serde::Deserialize" -> {"Sized"}
      [] t = "rkyv::Serialize" -> {"rkyv::Archive"}
      [] t = "rkyv::Deserialize" -> {"rkyv::Archive"}
      [] OTHER -> {}

\* a type that stops implementing t also loses every trait built on t
WithoutTrait(T, t) == {u \in T : u # t /\ t \notin Supertraits(u)}

WithTrait(T, t) == T \cup {t} \cup Supertraits(t)

(***************************************************************************)
(* NodeIdEssential                                                         *)
(***************************************************************************)
\* pub trait NodeIdEssential: <supertraits>
NodeIdEssentialSuper ==
    {"Sized", "Send", "Sync", "Eq", "PartialEq", "Ord", "PartialOrd", "Debug",
     "Display", "Hash", "Copy", "Clone", "Default", "'static"}

NodeIdEssentialWhereNoHash ==
    {"Sized", "Send", "Sync", "Eq", "PartialEq", "Ord", "PartialOrd", "Debug",
     "Display", "Copy", "Clone", "Default", "'static"}

\* impl<T> NodeIdEssential for T where T: <bounds>
NodeIdEssentialWhere ==
    {"Sized", "Send", "Sync", "Eq", "PartialEq", "Ord", "PartialOrd", "Debug",
     "Display", "Hash", "Copy", "Clone", "Default", "'static"}

\* T: NodeIdEssential holds through the blanket impl alone
ImplNodeIdEssential(T) == NodeIdEssentialWhere \subseteq T

(***************************************************************************)
(* NodeId: four `mod node`, each under its cfg.                            *)
(***************************************************************************)
\* #[cfg(all(feature = "rkyv", feature = "serde"))]
CfgBoth(F) == ("rkyv" \in F) /\ ("serde" \in F)

\* #[cfg(feature = "rkyv")] #[cfg(not(feature = "serde"))]
CfgRkyvOnly(F) == ("rkyv" \in F) /\ ~("serde" \in F)

\* #[cfg(feature = "serde")] #[cfg(not(feature = "rkyv"))]
CfgSerdeOnly(F) == ("serde" \in F) /\ ~("rkyv" \in F)

CfgNoneNotAll(F) == ~(("serde" \in F) /\ ("rkyv" \in F))

\* #[cfg(not(any(feature = "serde", feature = "rkyv")))]
CfgNone(F) == ~(("serde" \in F) \/ ("rkyv" \in F))

BoundsBothNoDeserialize ==
    {"NodeIdEssential", "serde::Serialize", "rkyv::Archive", "rkyv::Serialize"}

BoundsBoth ==
    {"NodeIdEssential", "serde::Serialize", "serde::Deserialize",
     "rkyv::Archive", "rkyv::Serialize"}

BoundsRkyvOnlyWithSerde ==
    {"NodeIdEssential", "serde::Serialize", "rkyv::Archive", "rkyv::Serialize"}

BoundsRkyvOnly == {"NodeIdEssential", "rkyv::Archive", "rkyv::Serialize"}

BoundsSerdeOnly == {"NodeIdEssential", "serde::Serialize", "serde::Deserialize"}

BoundsNone == {"NodeIdEssential"}

\* the four modules in source order; in each the trait's supertraits and
\* the blanket impl's where-clause are the same list
NodeMods ==
    << [cfg |-> [F \in SUBSET Features |-> CfgBoth(F)], bounds |-> BoundsBoth],
       [cfg |-> [F \in SUBSET Features |-> CfgRkyvOnly(F)], bounds |-> BoundsRkyvOnly],
       [cfg |-> [F \in SUBSET Features |-> CfgSerdeOnly(F)], bounds |-> BoundsSerdeOnly],
       [cfg |-> [F \in SUBSET Features |-> CfgNone(F)], bounds |-> BoundsNone] >>

\* the modules that survive cfg-stripping under feature set F
ActiveMods(F) == {i \in 1..Len(NodeMods) : NodeMods[i].cfg[F]}

Satisfies(T, b) == IF b = "NodeIdEssential" THEN ImplNodeIdEssential(T) ELSE b \in T

\* T: NodeId through the blanket impl of module i
ImplNodeId(T, i) == \A b \in NodeMods[i].bounds : Satisfies(T, b)

\* `pub use node::NodeId` resolves only when exactly one `mod node` is left,
\* and the blanket impl of NodeIdEssential must provide the trait's supertraits
Compile(F, T) ==
    LET act == ActiveMods(F)
    IN IF Cardinality(act) # 1 \/ ~(NodeIdEssentialSuper \subseteq NodeIdEssentialWhere)
       THEN "build_error"
       ELSE IF \A i \in act : ImplNodeId(T, i) THEN "accepted"
       ELSE "rejected"

(***************************************************************************)
(* engine/testing.rs                                                       *)
(***************************************************************************)
\* an empty struct is Sized, Send, Sync and 'static without a derive
UnitStructTraits == {"Sized", "Send", "Sync", "'static"}

DerivesRkyvUnderSerde(F) ==
    {"Clone"}
    \cup (IF "serde" \in F THEN {"serde::Deserialize", "serde::Serialize"} ELSE {})
    \cup (IF "serde" \in F THEN {"rkyv::Archive", "rkyv::Serialize", "rkyv::Deserialize"} ELSE {})

\* #[derive(Clone)] and the two cfg_attr derives of Req and of Resp
Derives(F) ==
    {"Clone"}
    \cup (IF "serde" \in F THEN {"serde::Deserialize", "serde::Serialize"} ELSE {})
    \cup (IF "rkyv" \in F THEN {"rkyv::Archive", "rkyv::Serialize", "rkyv::Deserialize"} ELSE {})

ReqTraits(F) == UnitStructTraits \cup Derives(F)

RespTraits(F) == UnitStructTraits \cup Derives(F)

\* u64 in a build with features F: the std traits, and the traits of the
\* serialization crates that are compiled in
U64Traits(F) ==
    StdTraits
    \cup (IF "serde" \in F THEN SerdeTraits ELSE {})
    \cup (IF "rkyv" \in F THEN RkyvTraits ELSE {})

\* the serialization traits that come with the enabled features
EnabledSerialization(F) ==
    (IF "serde" \in F THEN SerdeTraits ELSE {}) \cup (IF "rkyv" \in F THEN RkyvTraits ELSE {})

\* declare_raft_types!(Config: D = Req, R = Resp, NodeId = u64)
DeclareRaftTypes(F) ==
    IF /\ Compile(F, U64Traits(F)) = "accepted"
       /\ EnabledSerialization(F) \subseteq ReqTraits(F)
       /\ EnabledSerialization(F) \subseteq RespTraits(F)
    THEN "ok" ELSE "error"

(***************************************************************************)
(* Operations on one record.                                               *)
(*   out      text returned by the last operation (empty unless fmt)       *)
(*   last     the last operation                                           *)
(*   addrArg  the argument the record was constructed from                 *)
(*   hist     entries in the order inserted, kept while every operation    *)
(*            since construction was an insert of an absent key (fresh)    *)
(***************************************************************************)
CapIdle ==
    /\ features = {}
    /\ ty = AllTraits
    /\ phase = "declared"
    /\ selected = {}
    /\ essential = "none"
    /\ verdict = "none"
    /\ testCfg = "none"

InitNode ==
    /\ \E a \in Strs :
        /\ node = NodeNew(a)
        /\ addrArg = a
    /\ out = <<>>
    /\ last = "new"
    /\ hist = <<>>
    /\ fresh = TRUE

New(a) ==
    /\ node' = NodeNew(a)
    /\ addrArg' = a
    /\ out' = <<>>
    /\ last' = "new"
    /\ hist' = <<>>
    /\ fresh' = TRUE
    /\ UNCHANGED capVars

Insert(k, v) ==
    /\ BTreeContainsKey(node.data, k) \/ Len(node.data) < MaxPairs
    /\ node' = [node EXCEPT !.data = BTreeInsert(node.data, k, v)]
    /\ fresh' = (fresh /\ ~BTreeContainsKey(node.data, k))
    /\ hist' = IF fresh' THEN Append(hist, <<k, v>>) ELSE <<>>
    /\ out' = <<>>
    /\ last' = "insert"
    /\ UNCHANGED <<addrArg>>
    /\ UNCHANGED capVars

Remove(k) ==
    /\ node' = [node EXCEPT !.data = BTreeRemove(node.data, k)]
    /\ fresh' = FALSE
    /\ hist' = <<>>
    /\ out' = <<>>
    /\ last' = "remove"
    /\ UNCHANGED <<addrArg>>
    /\ UNCHANGED capVars

Render ==
    /\ out' = Fmt(node)
    /\ last' = "fmt"
    /\ UNCHANGED <<node, addrArg, hist, fresh>>
    /\ UNCHANGED capVars

DoNew == \E a \in Strs : New(a)
DoInsert == \E k \in Strs, v \in Vals : Insert(k, v)
DoRemove == \E k \in Strs : Remove(k)

Init == InitNode /\ CapIdle

Next == DoNew \/ DoInsert \/ DoRemove \/ Render

Spec == Init /\ [][Next]_vars

(***************************************************************************)
(* Builds of the crate: a feature set, a candidate node-id type, the       *)
(* compiler's verdict on `ty: NodeId`, and the test Config.                *)
(***************************************************************************)
NodeIdle ==
    /\ node = NodeDefault
    /\ out = <<>>
    /\ last = "new"
    /\ addrArg = <<>>
    /\ hist = <<>>
    /\ fresh = TRUE

InitCap ==
    /\ features \in SUBSET Features
    /\ ty = AllTraits
    /\ phase = "declared"
    /\ selected = {}
    /\ essential = "none"
    /\ verdict = "none"
    /\ testCfg = "none"

Redeclare ==
    /\ phase' = "declared"
    /\ selected' = {}
    /\ essential' = "none"
    /\ verdict' = "none"
    /\ testCfg' = "none"

ToggleFeature(f) ==
    /\ features' = IF f \in features THEN features \ {f} ELSE features \cup {f}
    /\ Redeclare
    /\ UNCHANGED ty
    /\ UNCHANGED nodeVars

DropTrait(t) ==
    /\ t \in ty
    /\ Cardinality(AllTraits \ WithoutTrait(ty, t)) <= MaxMissing
    /\ ty' = WithoutTrait(ty, t)
    /\ Redeclare
    /\ UNCHANGED features
    /\ UNCHANGED nodeVars

ImplTrait(t) ==
    /\ t \notin ty
    /\ ty' = WithTrait(ty, t)
    /\ Redeclare
    /\ UNCHANGED features
    /\ UNCHANGED nodeVars

Build ==
    /\ phase = "declared"
    /\ phase' = "built"
    /\ selected' = ActiveMods(features)
    /\ essential' = IF ImplNodeIdEssential(ty) THEN "impl" ELSE "not_impl"
    /\ verdict' = Compile(features, ty)
    /\ UNCHANGED <<features, ty, testCfg>>
    /\ UNCHANGED nodeVars

DeclareTestConfig ==
    /\ phase = "built"
    /\ testCfg = "none"
    /\ testCfg' = DeclareRaftTypes(features)
    /\ UNCHANGED <<features, ty, phase, selected, essential, verdict>>
    /\ UNCHANGED nodeVars

DoToggleFeature == \E f \in Features : ToggleFeature(f)
DoDropTrait == \E t \in AllTraits : DropTrait(t)
DoImplTrait == \E t \in AllTraits : ImplTrait(t)

InitBuild == InitCap /\ NodeIdle

NextCap == DoToggleFeature \/ DoDropTrait \/ DoImplTrait \/ Build \/ DeclareTestConfig

SpecCap == InitBuild /\ [][NextCap]_vars

(***************************************************************************)
(* Properties.  The texts and trait sets below are written out on their    *)
(* own, apart from the definitions above.                                  *)
(***************************************************************************)
\* "k:v" pairs joined by ",", built from the last pair backwards
RECURSIVE PairsText(_)
PairsText(e) ==
    IF Len(e) = 0 THEN <<>>
    ELSE IF Len(e) = 1 THEN e[1][1] \o <<58>> \o e[1][2]
    ELSE PairsText(SubSeq(e, 1, Len(e) - 1)) \o <<44>> \o e[Len(e)][1] \o <<58>> \o e[Len(e)][2]

\* s sorts before t: s is a proper prefix of t, or at the first position
\* where they differ s has the smaller byte
KeyBefore(s, t) ==
    \/ Len(s) < Len(t) /\ \A i \in 1..Len(s) : s[i] = t[i]
    \/ \E i \in 1..Len(s) :
        /\ i <= Len(t)
        /\ s[i] < t[i]
        /\ \A j \in 1..(i - 1) : s[j] = t[j]

AscendingKeys(e) == \A i \in 1..Len(e) : \A j \in 1..Len(e) : i < j => KeyBefore(e[i][1], e[j][1])

\* the pairs of a set with unique keys, smallest key first
RECURSIVE CanonText(_)
CanonText(ps) ==
    IF ps = {} THEN <<>>
    ELSE LET lo == CHOOSE p \in ps : \A q \in ps : q = p \/ KeyBefore(p[1], q[1])
         IN IF ps = {lo} THEN lo[1] \o <<58>> \o lo[2]
            ELSE lo[1] \o <<58>> \o lo[2] \o <<44>> \o CanonText(ps \ {lo})

PairSet(m) == {m[i] : i \in 1..Len(m)}

\* bytes of the pairs alone: key, ':' and value of each
RECURSIVE PairsLen(_)
PairsLen(e) == IF e = <<>> THEN 0 ELSE Len(Head(e)[1]) + 1 + Len(Head(e)[2]) + PairsLen(Tail(e))

\* C1: fmt returns addr, then "; ", then the map's pairs as key ":" value
\* joined by single ","; nothing before the first pair, nothing after the
\* last, and addr "; " alone for an empty map.
C1_RenderFormat ==
    last = "fmt" =>
        /\ out = node.addr \o <<59, 32>> \o PairsText(node.data)
        /\ (Len(node.data) = 0 => out = node.addr \o <<59, 32>>)
        /\ (Len(node.data) > 0 =>
              LET n == Len(node.data)
                  first == node.data[1][1]
                  final == node.data[n][2]
              IN /\ SubSeq(out, Len(node.addr) + 3, Len(node.addr) + 2 + Len(first)) = first
                 /\ SubSeq(out, Len(out) - Len(final) + 1, Len(out)) = final
                 /\ Len(out) = Len(node.addr) + 2 + PairsLen(node.data) + (n - 1))

C1_Witness == last = "fmt" /\ Len(node.data) = 2 /\ node.addr # <<>>

\* C5: Node::new yields a record whose addr is the argument, the empty
\* text included, and whose map is empty.
C5_ConstructSetsAddr ==
    last = "new" => node.addr = addrArg /\ Len(node.data) = 0 /\ node.data = <<>>

C5_Witness == last = "new" /\ addrArg = <<>> /\ node.addr = <<>>

\* C6 as stated: after inserts of pairwise distinct keys into a fresh record,
\* fmt lists the pairs in insertion order.
C6_InsertionOrder ==
    (last = "fmt" /\ fresh) => out = node.addr \o <<59, 32>> \o PairsText(hist)

\* C6 amended: after inserts of pairwise distinct keys made in ascending key
\* order into a fresh record, fmt lists the pairs in insertion order.
C6_AscendingInsertionOrder ==
    (last = "fmt" /\ fresh /\ AscendingKeys(hist)) =>
        out = node.addr \o <<59, 32>> \o PairsText(hist)

C6_Witness == last = "fmt" /\ fresh /\ Len(hist) = 2 /\ AscendingKeys(hist)

\* C7: the text fmt returns is fixed by addr and the set of pairs held,
\* whatever the order of the inserts and removes that produced it: the pairs
\* appear in ascending key order.
C7_RenderByContents ==
    last = "fmt" =>
        /\ out = node.addr \o <<59, 32>> \o CanonText(PairSet(node.data))
        /\ Cardinality(PairSet(node.data)) = Len(node.data)
        /\ AscendingKeys(node.data)

C7_Witness ==
    /\ last = "fmt"
    /\ fresh
    /\ Len(hist) = 2
    /\ KeyBefore(hist[2][1], hist[1][1])

\* C8: fmt does not escape, so its text does not determine the record: a
\* record whose only key holds a ':' renders the same as the different
\* record whose key is the part before that ':' and whose value is the rest.
C8_AmbiguousRendering ==
    (last = "fmt" /\ Len(node.data) = 1) =>
        LET k == node.data[1][1]
            v == node.data[1][2]
        IN \A p \in 1..Len(k) :
            k[p] = 58 =>
                LET alt == [addr |-> node.addr,
                            data |-> << <<SubSeq(k, 1, p - 1),
                                          SubSeq(k, p + 1, Len(k)) \o <<58>> \o v>> >>]
                IN alt # node /\ Fmt(alt) = out

C8_Witness ==
    /\ last = "fmt"
    /\ Len(node.data) = 1
    /\ \E p \in 1..Len(node.data[1][1]) : node.data[1][1][p] = 58

\* C2: under each of the four feature sets exactly one NodeId declaration
\* is selected.
C2_ExactlyOneContract ==
    phase = "built" => Cardinality(selected) = 1 /\ verdict # "build_error"

C2_Witness == phase = "built" /\ features = {"serde"} /\ selected # {}

EssentialContract ==
    {"Sized", "Send", "Sync", "Eq", "PartialEq", "Ord", "PartialOrd", "Debug",
     "Display", "Hash", "Copy", "Clone", "Default", "'static"}

ExpectedContract(F) ==
    EssentialContract
    \cup (IF "serde" \in F THEN {"serde::Serialize", "serde::Deserialize"} ELSE {})
    \cup (IF "rkyv" \in F THEN {"rkyv::Archive", "rkyv::Serialize"} ELSE {})

\* every trait the selected declaration asks for, NodeIdEssential unfolded
RequiredTraits(sel) ==
    UNION {(NodeMods[i].bounds \ {"NodeIdEssential"})
           \cup (IF "NodeIdEssential" \in NodeMods[i].bounds THEN NodeIdEssentialWhere ELSE {})
           : i \in sel}

\* C3: the selected NodeId declaration requires the essential bounds, plus
\* serde's Serialize and Deserialize exactly under feature serde, plus rkyv's
\* Archive and Serialize exactly under feature rkyv; a type is accepted iff
\* it implements all of them.
C3_ContractMatchesFlags ==
    phase = "built" =>
        /\ RequiredTraits(selected) = ExpectedContract(features)
        /\ (verdict = "accepted" <=> ExpectedContract(features) \subseteq ty)
        /\ (verdict = "rejected" <=> ~(ExpectedContract(features) \subseteq ty))

C3_Witness ==
    /\ phase = "built"
    /\ features = {"rkyv"}
    /\ verdict = "rejected"
    /\ EssentialContract \subseteq ty
    /\ "serde::Serialize" \in ty

\* ordering, equality, hashing, duplication, debug, display, default,
\* cross-thread safety
ListedCapabilities ==
    {"Ord", "PartialOrd", "Eq", "PartialEq", "Hash", "Copy", "Clone", "Debug",
     "Display", "Default", "Send", "Sync"}

\* C4 as stated: a type is accepted as NodeIdEssential iff it has the eight
\* listed capabilities.
C4_ListedCapabilitiesOnly ==
    phase = "built" => (essential = "impl" <=> ListedCapabilities \subseteq ty)

\* C4 amended: a type is accepted as NodeIdEssential, under every feature
\* set, iff it has the eight listed capabilities and is 'static.
C4_EssentialBound ==
    phase = "built" =>
        (essential = "impl" <=> (ListedCapabilities \cup {"'static"}) \subseteq ty)

C4_Witness ==
    /\ phase = "built"
    /\ features = {"serde", "rkyv"}
    /\ ListedCapabilities \subseteq ty
    /\ "'static" \notin ty
    /\ essential = "not_impl"

\* C9: under each feature set u64 implements what the selected NodeId
\* declaration requires, and Req and Resp carry the serialization traits of
\* exactly the enabled features.
C9_TestConfigSatisfiesContract ==
    testCfg # "none" =>
        /\ selected # {}
        /\ \A i \in selected : ImplNodeId(U64Traits(features), i)
        /\ \A P \in {ReqTraits(features), RespTraits(features)} :
            /\ ("serde::Serialize" \in P <=> "serde" \in features)
            /\ ("serde::Deserialize" \in P <=> "serde" \in features)
            /\ ("rkyv::Archive" \in P <=> "rkyv" \in features)
            /\ ("rkyv::Serialize" \in P <=> "rkyv" \in features)
            /\ ("rkyv::Deserialize" \in P <=> "rkyv" \in features)

C9_Witness ==
    /\ testCfg # "none"
    /\ features = {"rkyv"}
    /\ "rkyv::Archive" \in ReqTraits(features)
    /\ "serde::Serialize" \notin RespTraits(features)

\* C10: a type accepted under a feature set is accepted under every smaller
\* feature set.
C10_MonotoneContracts ==
    (phase = "built" /\ verdict = "accepted") =>
        \A F \in SUBSET features : Compile(F, ty) = "accepted"

C10_Witness ==
    /\ phase = "built"
    /\ verdict = "accepted"
    /\ features = {"serde", "rkyv"}
    /\ "rkyv::Deserialize" \notin ty

====
